---- MODULE Spec2Model ----
(***************************************************************************)
(* Model of server.js: a minimal retrieval-augmented-generation service.   *)
(* One Node.js process owns the array `kb`, persists it to kb.json with    *)
(* saveKB, and serves /health, /kb, /ingest and /chat.  Handlers are async *)
(* functions: each runs atomically up to its next `await`, so one action   *)
(* of the model is one such run-to-completion step of one handler.         *)
(***************************************************************************)
EXTENDS Integers, Sequences, FiniteSets, TLC

VARIABLES
  kb,        \* the module-level array `kb` (server.js:20), a sequence of documents
  file,      \* the content of ./kb.json: NoFile or the JSON text saveKB wrote
  alive,     \* the Node.js process is running
  boot,      \* the app.listen callback: its position, toEmbed and loop index
  reqs,      \* the requests in flight, in the order of their arrival: body,
             \* handler position, loop index
  out,       \* the HTTP response sent by the last step, if it sent one
  now,       \* the wall clock read by `new Date()`; it advances by one unit
             \* whenever a step has created documents, so that documents
             \* created by different steps carry different timestamps
  hist       \* history of each request and of the store, used only by properties

vars == <<kb, file, alive, boot, reqs, out, now, hist>>

----------------------------------------------------------------------------
(* Bounds of the model.                                                    *)

MaxInFlight == 2   \* requests whose handlers are suspended at an await at a time
MaxKB == 3         \* no ingest is accepted that would make kb longer than this

Reqs == 1..MaxInFlight

----------------------------------------------------------------------------
(* Values.                                                                 *)

\* The seed texts of loadKB.
SeedText1 == "TinyLlama is a small language model optimized for fast inference on modest hardware."
SeedText2 == "React Native builds mobile apps using JavaScript and native widgets for iOS and Android."

\* embedOne(text): the vectors the Embedding Gateway may answer for a text when
\* it does not fail.  One model (EMBED_MODEL) serves the whole run: vectors of
\* one dimension, one vector for each text.
EmbedOne(text) ==
  { IF text = "x" THEN <<1, 0>>
    ELSE IF text = "y" THEN <<0, 1>>
    ELSE IF text = SeedText1 THEN <<1, 1>>
    ELSE <<0, 1>> }

\* embedOne(query): a query is a string modelled as its sequence of characters.
EmbedQuery(query) == { <<1, 0>> }

\* new Date().toISOString()
ToISOString(t) == ToString(t)

\* A document is a JS object: a record that has the property `embedding` or
\* lacks it (a seed document, or one parsed from a file that lacked it).
HasEmbedding(d) == "embedding" \in DOMAIN d

\* d.embedding = v : the other properties keep their values.
SetEmbedding(d, v) ==
  [k \in DOMAIN d \cup {"embedding"} |-> IF k = "embedding" THEN v ELSE d[k]]

\* The items a client can put into `documents`.
ItemA == [id |-> "a", text |-> "x"]
ItemB == [id |-> "b", text |-> "y"]
NoTextItem == [id |-> "a"]

EmptyBody == [k \in {} |-> 0]

IngestBodies ==
  { EmptyBody,
    [documents |-> <<ItemA>>],
    [documents |-> <<ItemA, NoTextItem, ItemB, ItemA>>] }

\* A query is a string, modelled as its sequence of characters.
ChatBodies ==
  { EmptyBody,
    [query |-> <<" ">>],
    [query |-> <<"q">>],
    [query |-> <<"q">>, topK |-> 0],
    [query |-> <<"q">>, topK |-> 1],
    [query |-> <<"q">>, topK |-> -1] }

----------------------------------------------------------------------------
(* kb.json: JSON.stringify and JSON.parse.                                 *)
(* A JSON text is modelled by its structure: an array of objects, each a   *)
(* map from member keys to JSON values.                                    *)

NoFile == [exists |-> FALSE, text |-> <<>>]

JString(s) == [type |-> "string", str |-> s, nums |-> <<>>]
JArray(v) == [type |-> "array", str |-> "", nums |-> v]

\* JSON.stringify of one document: one member per own property; a property
\* the object lacks is not written.
StringifyDoc(d) ==
  [k \in DOMAIN d |-> IF k = "embedding" THEN JArray(d[k]) ELSE JString(d[k])]

\* Mutant of ParseDoc: a document read without an embedding gets an empty one
\* (embedding: d.embedding || []).
ParseDocDefault(j) ==
  [k \in DOMAIN j \cup {"embedding"} |->
     IF k \notin DOMAIN j THEN <<>>
     ELSE IF j[k].type = "array" THEN j[k].nums ELSE j[k].str]

\* JSON.parse of one object.
ParseDoc(j) ==
  [k \in DOMAIN j |-> IF j[k].type = "array" THEN j[k].nums ELSE j[k].str]

JSONStringify(k) == [i \in 1..Len(k) |-> StringifyDoc(k[i])]
JSONParse(text) == [i \in 1..Len(text) |-> ParseDoc(text[i])]

\* Mutant of SaveKB: the view of /kb is written, without the embeddings.
SaveKBView(k) ==
  [exists |-> TRUE,
   text |-> [i \in 1..Len(k) |->
               [m \in {"id", "text", "timestamp"} |-> JString(k[i][m])]]]

\* saveKB(): fs.writeFileSync(KB_PATH, JSON.stringify(kb, null, 2)).
\* The value is the new content of kb.json.
SaveKB(k) == [exists |-> TRUE, text |-> JSONStringify(k)]

\* The two seed documents of loadKB, created at time t.
SeedKB(t) ==
  << [id |-> "d1",
      text |-> SeedText1,
      timestamp |-> ToISOString(t)],
     [id |-> "d2",
      text |-> SeedText2,
      timestamp |-> ToISOString(t)] >>

\* Mutant of LoadKB: kb.json is not read, the store always starts from the
\* seeds.
LoadKBSeeds(f, t) == SeedKB(t)

\* loadKB(): the array parsed from kb.json when the file exists, else the seeds.
LoadKB(f, t) == IF f.exists THEN JSONParse(f.text) ELSE SeedKB(t)

\* kb.json when the process starts: absent, an empty array, or the file left
\* by an earlier run of the service that was stopped during its backfill (and
\* that used another embedding model).
InitFiles ==
  { NoFile,
    SaveKB(<<>>),
    SaveKB(<< SetEmbedding(SeedKB(0)[1], <<1, 0>>), SeedKB(0)[2] >>) }

----------------------------------------------------------------------------
(* cosine and the ranking of /chat.                                        *)
(* Floating-point numbers are modelled in fixed point: a score is an       *)
(* integer number of 1e-5 units.                                           *)

RECURSIVE SumProd(_, _, _)
\* The loop of cosine: the sum of a[i] * b[i] for i from n down to 1.
SumProd(a, b, n) == IF n = 0 THEN 0 ELSE a[n] * b[n] + SumProd(a, b, n - 1)

RECURSIVE SqrtSearch(_, _, _)
\* The largest s in lo..hi with s * s <= n, by bisection.
SqrtSearch(n, lo, hi) ==
  IF lo = hi THEN lo
  ELSE LET mid == (lo + hi + 1) \div 2
       IN IF mid * mid <= n THEN SqrtSearch(n, mid, hi)
                            ELSE SqrtSearch(n, lo, mid - 1)

\* Math.sqrt(n) in units of 1e-4.
Sqrt(n) == SqrtSearch(n * 10000 * 10000, 0, 10000 * (n + 1))

\* cosine(a, b): dot / (Math.sqrt(na) * Math.sqrt(nb) + 1e-9), in units of
\* 1e-5.  The epsilon is the smallest positive denominator of the model, one
\* unit of 1e-4.
Cosine(a, b) ==
  LET dot == SumProd(a, b, Len(a))
      na == SumProd(a, a, Len(a))
      nb == SumProd(b, b, Len(a))
      den == (Sqrt(na) * Sqrt(nb)) \div 10000 + 1
  IN (dot * 10000 * 100000) \div den

\* x.score.toFixed(4): the score rounded to units of 1e-4.
ToFixed4(score) == (score + 5) \div 10

\* kb.map(d => ({ ...d, score: cosine(qemb, d.embedding) }))
Scored(k, qemb) ==
  [i \in 1..Len(k) |->
     [id |-> k[i].id, text |-> k[i].text, timestamp |-> k[i].timestamp,
      embedding |-> k[i].embedding, score |-> Cosine(qemb, k[i].embedding)]]

RECURSIVE InsertDesc(_, _)
\* x inserted into the sequence s, sorted by descending score, after every
\* element whose score is not smaller: equal scores keep their order.
InsertDesc(s, x) ==
  IF s = <<>> THEN <<x>>
  ELSE IF Head(s).score >= x.score THEN <<Head(s)>> \o InsertDesc(Tail(s), x)
       ELSE <<x>> \o s

RECURSIVE SortDesc(_, _)
\* .sort((a, b) => b.score - a.score) applied to the first n elements of s.
\* Array.prototype.sort is stable.
SortDesc(s, n) == IF n = 0 THEN <<>> ELSE InsertDesc(SortDesc(s, n - 1), s[n])

\* .slice(0, end): a negative end counts from the end of the array.
SliceEnd(s, end) ==
  IF end < 0 THEN (IF Len(s) + end > 0 THEN Len(s) + end ELSE 0)
  ELSE IF end > Len(s) THEN Len(s) ELSE end
Slice0(s, end) == SubSeq(s, 1, SliceEnd(s, end))

\* const { query, topK = 3 } = req.body
TopK(body) == IF "topK" \in DOMAIN body THEN body.topK ELSE 3

\* The expression assigned to `ranked`.
Ranked(k, qemb, topK) == Slice0(SortDesc(Scored(k, qemb), Len(k)), topK)

\* cosine reads b[i]: it throws a TypeError when a document has no embedding
\* (qemb is never empty, so the loop body runs).
RankThrows(k) == \E i \in 1..Len(k) : ~HasEmbedding(k[i])

\* sources: ranked.map(x => ({ id, score: +x.score.toFixed(4), timestamp }))
Sources(ranked) ==
  [i \in 1..Len(ranked) |->
     [id |-> ranked[i].id, score |-> ToFixed4(ranked[i].score),
      timestamp |-> ranked[i].timestamp]]

----------------------------------------------------------------------------
(* The state after construction: nothing loaded yet, no request received.  *)

IdleReq ==
  [kind |-> "none", pc |-> "idle", body |-> EmptyBody, i |-> 0, ranked |-> <<>>]

\* History of an ingest request in flight: the length of kb and the content of
\* kb.json when its handler started, the items it has sent to the Embedding
\* Gateway, the indices in kb of the documents it has pushed, whether no other
\* request has overlapped it (alone), and whether neither another request nor
\* the startup backfill has overlapped it (quiet).
\* Of a chat request: the length of kb when it computed its ranking.
IdleHist ==
  [kb0 |-> 0, file0 |-> NoFile, calls |-> <<>>, pushed |-> <<>>,
   alone |-> FALSE, quiet |-> FALSE]

NoResponse == [sent |-> FALSE]

\* res.status(status).json(reply), with the request, its history and the
\* exception the handler caught ("none" when it caught none).
Response(q, h, status, reply, caught) ==
  [sent |-> TRUE, kind |-> q.kind, body |-> q.body, i |-> q.i, ranked |-> q.ranked,
   status |-> status, reply |-> reply, caught |-> caught,
   kb0 |-> h.kb0, file0 |-> h.file0, calls |-> h.calls, pushed |-> h.pushed,
   alone |-> h.alone, quiet |-> h.quiet]

\* History of the store.  kb0: kb as loaded at startup.  For each document of
\* kb: its fate ("loaded" at startup, "pending" while the ingest request that
\* appended it is in flight, then "ok" or "aborted" as that request ended),
\* the slot of that request while it is in flight (0: the startup), and who
\* first wrote the document to kb.json ("none": nobody yet, "startup": it was
\* read from kb.json, "own": the operation that put it into kb, "other":
\* another operation).
Init ==
  /\ kb = <<>>
  /\ file \in InitFiles
  /\ alive = TRUE
  /\ boot = [pc |-> "init", toEmbed |-> <<>>, i |-> 0]
  /\ reqs = [r \in Reqs |-> IdleReq]
  /\ out = NoResponse
  /\ now = 0
  /\ hist = [req |-> [r \in Reqs |-> IdleHist], kb0 |-> <<>>,
             fate |-> <<>>, slot |-> <<>>, savedBy |-> <<>>]

InFlight(r) == reqs[r].pc # "idle"

\* hist.savedBy after operation op (a slot, 0 for the startup) called saveKB
\* with a kb of length n in memory.
MarkSaved(h, n, op) ==
  [i \in 1..n |-> IF h.savedBy[i] # "none" THEN h.savedBy[i]
                  ELSE IF h.slot[i] = op THEN "own" ELSE "other"]

\* hist.savedBy after a step of operation op that left kb.json as f: the
\* step called saveKB exactly when it wrote the file.
Saved(h, f, n, op) == IF f = file THEN h.savedBy ELSE MarkSaved(h, n, op)

\* The slots without slot r: the requests behind it move up by one.
Remove(f, r, idle) ==
  [q \in Reqs |-> IF q < r THEN f[q]
                  ELSE IF q < MaxInFlight THEN f[q + 1] ELSE idle]

\* reqs when the request in slot r has ended.
Ended(r) == Remove(reqs, r, IdleReq)

\* The history when the request in slot r has ended with the given fate.
Settle(h, r, fate) ==
  [h EXCEPT !.req = Remove(h.req, r, IdleHist),
            !.fate = [i \in 1..Len(h.fate) |->
                        IF h.slot[i] = r THEN fate ELSE h.fate[i]],
            !.slot = [i \in 1..Len(h.slot) |->
                        IF h.slot[i] = r THEN -1
                        ELSE IF h.slot[i] > r THEN h.slot[i] - 1 ELSE h.slot[i]]]

----------------------------------------------------------------------------
(* Startup: the app.listen callback, loadKB() then await ensureEmbeddings(). *)

RECURSIVE Missing(_, _)
\* kb.filter(d => !d.embedding) over the first n documents.  toEmbed holds
\* references to the objects of kb; kb only grows at its end, so an object is
\* named here by its index in kb.
Missing(k, n) ==
  IF n = 0 THEN <<>>
  ELSE IF HasEmbedding(k[n]) THEN Missing(k, n - 1)
       ELSE Append(Missing(k, n - 1), n)

\* Mutant of ToEmbed: every document is embedded again, not only those
\* without an embedding.
ToEmbedAll(k) == [i \in 1..Len(k) |-> i]

ToEmbed(k) == Missing(k, Len(k))

\* Mutant of FileAfterBackfillThrow: saveKB() is called in a finally block.
FileAfterBackfillThrowSaved(f, k) == SaveKB(k)

\* kb.json after ensureEmbeddings threw out of its loop: saveKB is not reached.
FileAfterBackfillThrow(f, k) == f

\* What an unhandled promise rejection does to the process: Node.js before
\* version 15 prints a warning and goes on, from version 15 on it terminates
\* the process.  TRUE: the process goes on.
UnhandledRejectionOutcomes == {TRUE, FALSE}

\* app.listen callback up to the first await of ensureEmbeddings; with
\* nothing to embed ensureEmbeddings runs through to saveKB.
Listen ==
  /\ alive /\ boot.pc = "init"
  /\ LET k == LoadKB(file, now)
         todo == ToEmbed(k)
         h == [hist EXCEPT !.kb0 = k,
                           !.fate = [i \in 1..Len(k) |-> "loaded"],
                           !.slot = [i \in 1..Len(k) |-> 0],
                           !.savedBy = [i \in 1..Len(k) |->
                                          IF file.exists THEN "startup" ELSE "none"]]
     IN /\ kb' = k
        /\ IF todo = <<>>
             THEN /\ file' = SaveKB(k)
                  /\ boot' = [pc |-> "done", toEmbed |-> todo, i |-> 0]
                  /\ hist' = [h EXCEPT !.savedBy = MarkSaved(h, Len(k), 0)]
             ELSE /\ file' = file
                  /\ boot' = [pc |-> "backfill", toEmbed |-> todo, i |-> 1]
                  /\ hist' = h
  /\ now' = now + 1
  /\ out' = NoResponse
  /\ UNCHANGED <<alive, reqs>>

\* embedOne resolves in ensureEmbeddings: d.embedding = v, then the next
\* document of toEmbed, or saveKB() after the last one.
BackfillReturn ==
  /\ alive /\ boot.pc = "backfill"
  /\ \E v \in EmbedOne(kb[boot.toEmbed[boot.i]].text) :
     LET d == boot.toEmbed[boot.i]
         k == [kb EXCEPT ![d] = SetEmbedding(kb[d], v)]
     IN /\ kb' = k
        /\ IF boot.i = Len(boot.toEmbed)
             THEN /\ file' = SaveKB(k)
                  /\ boot' = [boot EXCEPT !.pc = "done"]
                  /\ hist' = [hist EXCEPT !.savedBy = MarkSaved(hist, Len(k), 0)]
             ELSE /\ file' = file
                  /\ boot' = [boot EXCEPT !.i = boot.i + 1]
                  /\ hist' = hist
  /\ out' = NoResponse
  /\ UNCHANGED <<alive, reqs, now>>

\* embedOne rejects in ensureEmbeddings: the loop is left, saveKB is not
\* called, and the rejection leaves the async callback of app.listen, which
\* has no try/catch: an unhandled rejection.
BackfillThrow ==
  /\ alive /\ boot.pc = "backfill"
  /\ boot' = [boot EXCEPT !.pc = "failed"]
  /\ file' = FileAfterBackfillThrow(file, kb)
  /\ hist' = [hist EXCEPT !.savedBy = Saved(hist, file', Len(kb), 0)]
  /\ alive' \in UnhandledRejectionOutcomes
  /\ out' = NoResponse
  /\ UNCHANGED <<kb, reqs, now>>

----------------------------------------------------------------------------
(* Requests.  Express calls a handler once the process listens, that is    *)
(* after the app.listen callback has run loadKB.                           *)

Serving == alive /\ boot.pc # "init"

\* A request that may suspend takes the first free slot.
Accepting(r) ==
  /\ Serving /\ ~InFlight(r)
  /\ \A q \in Reqs : q < r => InFlight(q)

\* The history when a request arrives: every request in flight is now
\* overlapped by another request.
Overlapped(h) ==
  [h EXCEPT !.req = [q \in Reqs |-> [h.req[q] EXCEPT !.alone = FALSE, !.quiet = FALSE]]]

\* The history of the arriving request itself.
Arrival ==
  [kb0 |-> Len(kb), file0 |-> file, calls |-> <<>>, pushed |-> <<>>,
   alone |-> \A o \in Reqs : ~InFlight(o),
   quiet |-> (\A o \in Reqs : ~InFlight(o)) /\ boot.pc # "backfill"]

\* app.get('/health')
Health ==
  /\ Serving
  /\ out' = Response([IdleReq EXCEPT !.kind = "health"], IdleHist, 200,
                     [status |-> "ok", timestamp |-> ToISOString(now), kbSize |-> Len(kb)],
                     "none")
  /\ hist' = Overlapped(hist)
  /\ UNCHANGED <<kb, file, alive, boot, reqs, now>>

\* Mutant of KBView: the documents are returned as they are stored.
KBViewFull(k) == k

\* kb.map(({ id, text, timestamp }) => ({ id, text, timestamp }))
KBView(k) ==
  [i \in 1..Len(k) |-> [id |-> k[i].id, text |-> k[i].text, timestamp |-> k[i].timestamp]]

\* app.get('/kb')
ListKB ==
  /\ Serving
  /\ out' = Response([IdleReq EXCEPT !.kind = "kb"], IdleHist, 200, [list |-> KBView(kb)],
                     "none")
  /\ hist' = Overlapped(hist)
  /\ UNCHANGED <<kb, file, alive, boot, reqs, now>>

----------------------------------------------------------------------------
(* POST /ingest                                                            *)

\* !doc.id || !doc.text : a missing or empty property is falsy.
Falsy(o, k) == IF k \in DOMAIN o THEN o[k] = "" ELSE TRUE
SkipItem(doc) == Falsy(doc, "id") \/ Falsy(doc, "text")

\* const docs = req.body.documents || []
Docs(body) == IF "documents" \in DOMAIN body THEN body.documents ELSE <<>>

\* Mutant of NextItem: an item that is skipped ends the loop (break instead of
\* continue).
NextItemBreak(docs, j) ==
  IF j > Len(docs) THEN j
  ELSE IF SkipItem(docs[j]) THEN Len(docs) + 1
       ELSE j

\* Mutant of NextItem: the loop does not advance past an item whose embedding
\* was computed, and sends it again.
NextItemAgain(docs, j) == IF j > 1 THEN j - 1 ELSE j

RECURSIVE NextItem(_, _)
\* The for loop from item j on: the index of the first item that is not
\* skipped, Len(docs) + 1 when the loop ends.
NextItem(docs, j) ==
  IF j > Len(docs) THEN j
  ELSE IF SkipItem(docs[j]) THEN NextItem(docs, j + 1)
       ELSE j

\* Mutant of Push: a document whose id is already stored replaces the stored
\* one instead of being appended.
PushUpsert(k, doc, v, t) ==
  LET d == [id |-> doc.id, text |-> doc.text, embedding |-> v,
            timestamp |-> ToISOString(t)]
  IN IF \E i \in 1..Len(k) : k[i].id = doc.id
       THEN [i \in 1..Len(k) |-> IF k[i].id = doc.id THEN d ELSE k[i]]
       ELSE Append(k, d)

\* Mutant of Push: kb.unshift instead of kb.push.
PushFront(k, doc, v, t) ==
  <<[id |-> doc.id, text |-> doc.text, embedding |-> v,
     timestamp |-> ToISOString(t)]>> \o k

\* Mutant of Push: an item whose id is already stored is not stored again.
PushUnique(k, doc, v, t) ==
  IF \E i \in 1..Len(k) : k[i].id = doc.id THEN k
  ELSE Append(k, [id |-> doc.id, text |-> doc.text, embedding |-> v,
                  timestamp |-> ToISOString(t)])

\* Mutant of Push: the document is written over the last one
\* (kb[kb.length - 1] = ...).
PushOverLast(k, doc, v, t) ==
  LET d == [id |-> doc.id, text |-> doc.text, embedding |-> v,
            timestamp |-> ToISOString(t)]
  IN IF k = <<>> THEN <<d>> ELSE [k EXCEPT ![Len(k)] = d]

\* kb.push({ id, text, embedding, timestamp })
Push(k, doc, v, t) ==
  Append(k, [id |-> doc.id, text |-> doc.text, embedding |-> v,
             timestamp |-> ToISOString(t)])

RECURSIVE CountValid(_, _)
\* The number of items of docs from item j on that are not skipped.
CountValid(docs, j) ==
  IF j > Len(docs) THEN 0
  ELSE (IF SkipItem(docs[j]) THEN 0 ELSE 1) + CountValid(docs, j + 1)

\* Mutant of Added: the number of documents pushed instead of docs.length.
AddedPushed(docs) == [added |-> CountValid(docs, 1)]

\* res.json({ added: docs.length })
Added(docs) == [added |-> Len(docs)]

\* Mutant of FileAfterIngestThrow: saveKB() is called on the way out of the
\* handler (in a finally block), so also after a failure.
FileAfterIngestThrowSaved(f, k) == SaveKB(k)

\* kb.json after the catch block of /ingest: saveKB is not reached.
FileAfterIngestThrow(f, k) == f

RECURSIVE Pending(_)
\* The number of documents the ingest requests in slots 1..n may still push.
Pending(n) ==
  IF n = 0 THEN 0
  ELSE Pending(n - 1) +
       (IF reqs[n].kind = "ingest" THEN CountValid(Docs(reqs[n].body), reqs[n].i) ELSE 0)

\* The bound of the model on the length of kb.
Room(docs) == Len(kb) + Pending(MaxInFlight) + CountValid(docs, 1) <= MaxKB

\* The handler up to its first await: skipped items are passed over; with no
\* item to embed it runs through saveKB() and the response.
IngestStart(r, body) ==
  /\ Accepting(r)
  /\ Room(Docs(body))
  /\ LET docs == Docs(body)
         j == NextItem(docs, 1)
         q == [IdleReq EXCEPT !.kind = "ingest", !.body = body]
         h == Overlapped(hist)
     IN IF j > Len(docs)
          THEN /\ file' = SaveKB(kb)
               /\ reqs' = reqs
               /\ out' = Response(q, Arrival, 200, Added(docs), "none")
               /\ hist' = [h EXCEPT !.savedBy = MarkSaved(h, Len(kb), r)]
          ELSE /\ file' = file
               /\ reqs' = [reqs EXCEPT ![r] = [q EXCEPT !.pc = "embed", !.i = j]]
               /\ out' = NoResponse
               /\ hist' = [h EXCEPT !.req[r] = [Arrival EXCEPT !.calls = <<j>>]]
  /\ UNCHANGED <<kb, alive, boot, now>>

\* embedOne resolves in /ingest: the document is pushed, then the loop goes
\* on to the next item that is not skipped, or to saveKB() and the response.
IngestEmbedReturn(r) ==
  /\ alive /\ reqs[r].kind = "ingest" /\ reqs[r].pc = "embed"
  /\ \E v \in EmbedOne(Docs(reqs[r].body)[reqs[r].i].text) :
     LET docs == Docs(reqs[r].body)
         k == Push(kb, docs[reqs[r].i], v, now)
         j == NextItem(docs, reqs[r].i + 1)
         h == [hist EXCEPT !.fate = Append(@, "pending"),
                           !.slot = Append(@, r),
                           !.savedBy = Append(@, "none"),
                           !.req[r].pushed = Append(@, Len(k))]
     IN /\ kb' = k
        /\ IF j > Len(docs)
             THEN /\ file' = SaveKB(k)
                  /\ reqs' = Ended(r)
                  /\ out' = Response(reqs[r], h.req[r], 200, Added(docs), "none")
                  /\ hist' = Settle([h EXCEPT !.savedBy = MarkSaved(h, Len(k), r)], r, "ok")
             ELSE /\ file' = file
                  /\ reqs' = [reqs EXCEPT ![r].i = j]
                  /\ out' = NoResponse
                  /\ hist' = [h EXCEPT !.req[r].calls = Append(@, j)]
  /\ now' = now + 1
  /\ UNCHANGED <<alive, boot>>

\* embedOne rejects in /ingest: catch (e), res.status(500).
IngestEmbedThrow(r) ==
  /\ alive /\ reqs[r].kind = "ingest" /\ reqs[r].pc = "embed"
  /\ reqs' = Ended(r)
  /\ out' = Response(reqs[r], hist.req[r], 500, [error |-> "embedding failed"],
                     "embedOne")
  /\ file' = FileAfterIngestThrow(file, kb)
  /\ hist' = Settle([hist EXCEPT !.savedBy = Saved(hist, file', Len(kb), r)], r, "aborted")
  /\ UNCHANGED <<kb, alive, boot, now>>

----------------------------------------------------------------------------
(* POST /chat                                                              *)

Whitespace == {" "}

RECURSIVE TrimStart(_)
TrimStart(q) ==
  IF q # <<>> /\ Head(q) \in Whitespace THEN TrimStart(Tail(q)) ELSE q

RECURSIVE TrimEnd(_)
TrimEnd(q) ==
  IF q # <<>> /\ q[Len(q)] \in Whitespace THEN TrimEnd(SubSeq(q, 1, Len(q) - 1)) ELSE q

\* query.trim()
Trim(q) == TrimEnd(TrimStart(q))

\* Mutant of BlankQuery: the query is not trimmed (!query only).
BlankQueryNoTrim(body) ==
  IF "query" \in DOMAIN body THEN body.query = <<>> ELSE TRUE

\* !query || !query.trim()
BlankQuery(body) ==
  IF "query" \in DOMAIN body THEN body.query = <<>> \/ Trim(body.query) = <<>> ELSE TRUE

\* The handler up to its first await: 400 for a blank query, else the query
\* is sent to the Embedding Gateway.
ChatStart(r, body) ==
  /\ Accepting(r)
  /\ LET q == [IdleReq EXCEPT !.kind = "chat", !.body = body]
         h == Overlapped(hist)
     IN IF BlankQuery(body)
          THEN /\ reqs' = reqs
               /\ out' = Response(q, IdleHist, 400, [error |-> "query is required"], "none")
               /\ hist' = h
          ELSE /\ reqs' = [reqs EXCEPT ![r] = [q EXCEPT !.pc = "embed"]]
               /\ out' = NoResponse
               /\ hist' = h
  /\ UNCHANGED <<kb, file, alive, boot, now>>

\* embedOne resolves in /chat: the ranking is computed and the prompt is sent
\* to the Generation Gateway; a TypeError thrown by cosine is caught: 500.
ChatEmbedReturn(r) ==
  /\ alive /\ reqs[r].kind = "chat" /\ reqs[r].pc = "embed"
  /\ \E qemb \in EmbedQuery(reqs[r].body.query) :
     IF RankThrows(kb)
       THEN /\ reqs' = Ended(r)
            /\ out' = Response(reqs[r], hist.req[r], 500,
                               [error |-> "Cannot read properties of undefined"],
                               "TypeError")
            /\ hist' = Settle(hist, r, "ok")
       ELSE /\ reqs' = [reqs EXCEPT ![r].pc = "generate",
                                    ![r].ranked = Ranked(kb, qemb, TopK(reqs[r].body))]
            /\ out' = NoResponse
            /\ hist' = [hist EXCEPT !.req[r].kb0 = Len(kb)]
  /\ UNCHANGED <<kb, file, alive, boot, now>>

\* embedOne rejects in /chat: catch (e), res.status(500).
ChatEmbedThrow(r) ==
  /\ alive /\ reqs[r].kind = "chat" /\ reqs[r].pc = "embed"
  /\ reqs' = Ended(r)
  /\ out' = Response(reqs[r], hist.req[r], 500, [error |-> "embedding failed"],
                     "embedOne")
  /\ hist' = Settle(hist, r, "ok")
  /\ UNCHANGED <<kb, file, alive, boot, now>>

\* The Generation Gateway answers: res.json({ response, elapsed, sources }).
ChatGenerateReturn(r) ==
  /\ alive /\ reqs[r].kind = "chat" /\ reqs[r].pc = "generate"
  /\ reqs' = Ended(r)
  /\ out' = Response(reqs[r], hist.req[r], 200,
                     [response |-> "answer", sources |-> Sources(reqs[r].ranked)], "none")
  /\ hist' = Settle(hist, r, "ok")
  /\ UNCHANGED <<kb, file, alive, boot, now>>

\* The Generation Gateway fails: catch (e), res.status(500).
ChatGenerateThrow(r) ==
  /\ alive /\ reqs[r].kind = "chat" /\ reqs[r].pc = "generate"
  /\ reqs' = Ended(r)
  /\ out' = Response(reqs[r], hist.req[r], 500, [error |-> "generation failed"],
                     "generate")
  /\ hist' = Settle(hist, r, "ok")
  /\ UNCHANGED <<kb, file, alive, boot, now>>

----------------------------------------------------------------------------

\* One step of the process, with the request bodies that clients send drawn
\* from the given sets.
Step(ingestBodies, chatBodies) ==
  \/ Listen
  \/ BackfillReturn
  \/ BackfillThrow
  \/ Health
  \/ ListKB
  \/ \E r \in Reqs : \E body \in ingestBodies : IngestStart(r, body)
  \/ \E r \in Reqs : IngestEmbedReturn(r)
  \/ \E r \in Reqs : IngestEmbedThrow(r)
  \/ \E r \in Reqs : \E body \in chatBodies : ChatStart(r, body)
  \/ \E r \in Reqs : ChatEmbedReturn(r)
  \/ \E r \in Reqs : ChatEmbedThrow(r)
  \/ \E r \in Reqs : ChatGenerateReturn(r)
  \/ \E r \in Reqs : ChatGenerateThrow(r)

\* Every kind of ingest request, with one blank and one proper chat request.
Next == Step(IngestBodies, {[query |-> <<" ">>], [query |-> <<"q">>]})

Spec == Init /\ [][Next]_vars

\* Every kind of chat request, with one kind of ingest request.
NextChat == Step({[documents |-> <<ItemA>>]}, ChatBodies)

SpecChat == Init /\ [][NextChat]_vars

\* The chat requests without a proper query: no query, an empty one, one of
\* whitespace only; and two proper ones.
BlankBodies ==
  { EmptyBody,
    [query |-> <<>>],
    [query |-> <<" ">>],
    [query |-> <<" ", " ">>],
    [query |-> <<"q">>],
    [query |-> <<" ", "q", " ">>] }

NextBlank == Step({[documents |-> <<ItemA>>]}, BlankBodies)

SpecBlank == Init /\ [][NextBlank]_vars

\* Ingest requests of one and of two valid items, which can be in flight
\* together, with one proper chat request.
NextIngest ==
  Step({[documents |-> <<ItemA, ItemB>>], [documents |-> <<ItemB>>]},
       {[query |-> <<"q">>]})

SpecIngest == Init /\ [][NextIngest]_vars

----------------------------------------------------------------------------
(* Properties.                                                             *)

RECURSIVE ValidUpTo(_, _)
\* The indices of the items 1..n of docs that are not skipped, in order.
ValidUpTo(docs, n) ==
  IF n = 0 THEN <<>>
  ELSE IF SkipItem(docs[n]) THEN ValidUpTo(docs, n - 1)
       ELSE Append(ValidUpTo(docs, n - 1), n)

\* Document i of kb is in the persisted snapshot.
InFile(i) == file.exists /\ i <= Len(file.text)

\* The last step answered an ingest request whose embedOne call failed.
IngestFailed == out.sent /\ out.kind = "ingest" /\ out.caught = "embedOne"

\* What C1 says of an ingest request that failed on item out.i: the valid
\* items before it, and nothing else, were appended to kb; exactly the valid
\* items up to it were sent to the Embedding Gateway; kb.json is as it was when
\* the request started; the answer is 500.
FailedIngestOutcome ==
  LET docs == out.body.documents
      before == ValidUpTo(docs, out.i - 1)
  IN /\ Len(kb) = out.kb0 + Len(before)
     /\ \A p \in 1..Len(before) :
          /\ kb[out.kb0 + p].id = docs[before[p]].id
          /\ kb[out.kb0 + p].text = docs[before[p]].text
     /\ out.calls = Append(before, out.i)
     /\ file = out.file0
     /\ out.status = 500

\* C1 as stated: an ingest request that no other request overlapped and whose
\* embedOne call failed on item N has appended the valid items before N, has
\* embedded no item after N, has left kb.json as it was when it started, and
\* answers 500.
C1_Original == (IngestFailed /\ out.alone) => FailedIngestOutcome

\* C1 amended: the same, for an ingest request that neither another request
\* nor the startup backfill overlapped.
C1_FailedIngestQuiet == (IngestFailed /\ out.quiet) => FailedIngestOutcome

\* An undisturbed ingest request failed on its third item, with its first
\* item appended and its fourth never sent.
C1_Witness ==
  /\ IngestFailed /\ out.quiet
  /\ out.i = 3 /\ Len(out.body.documents) = 4
  /\ Len(kb) = out.kb0 + 1

\* C2 as stated: in every reachable state no document appended by an ingest
\* request that aborted on a gateway failure is in the persisted snapshot.
C2_Original ==
  \A i \in 1..Len(kb) : hist.fate[i] = "aborted" => ~InFile(i)

\* C2 amended: a document appended by an ingest request that aborted on a
\* gateway failure is never written to kb.json by that request; it is in the
\* persisted snapshot exactly when another operation (an ingest request that
\* completed, or the startup backfill) has called saveKB since it was appended,
\* and then as it is in memory.
C2_AbortedSavedByOthers ==
  \A i \in 1..Len(kb) :
    hist.fate[i] = "aborted" =>
      /\ hist.savedBy[i] \in {"none", "other"}
      /\ InFile(i) <=> hist.savedBy[i] = "other"
      /\ InFile(i) => file.text[i] = StringifyDoc(kb[i])

\* A document appended by an aborted ingest request is in kb.json.
C2_Witness ==
  \E i \in 1..Len(kb) : hist.fate[i] = "aborted" /\ InFile(i)

\* C3: an ingest request that ends without an exception answers 200 with
\* added = the length of the documents array it was sent, 0 without one.
C3_AddedIsBatchLength ==
  (out.sent /\ out.kind = "ingest" /\ out.caught = "none") =>
     /\ out.status = 200
     /\ out.reply = [added |-> IF "documents" \in DOMAIN out.body
                                THEN Len(out.body.documents) ELSE 0]

\* An ingest request of four items, one of them skipped, answered added = 4
\* after three embedOne calls.
C3_Witness ==
  /\ out.sent /\ out.kind = "ingest" /\ out.status = 200
  /\ out.reply.added = 4 /\ Len(out.calls) = 3

Min(a, b) == IF a < b THEN a ELSE b

\* The scores of a ranking never increase along it.
NonIncreasing(ranked) ==
  \A i \in 1..(Len(ranked) - 1) : ranked[i].score >= ranked[i + 1].score

\* C4 as stated: for any corpus, also one with documents that lack an
\* embedding, and any topK >= 0, once the query is embedded /chat has a ranking
\* (no exception), of length min(topK, number of embedded documents) and
\* non-increasing by score.
C4_Original ==
  /\ \A r \in Reqs :
       (reqs[r].kind = "chat" /\ reqs[r].pc = "generate" /\ TopK(reqs[r].body) >= 0) =>
          /\ Len(reqs[r].ranked) = Min(TopK(reqs[r].body), hist.req[r].kb0)
          /\ NonIncreasing(reqs[r].ranked)
  /\ ~(out.sent /\ out.kind = "chat" /\ out.caught = "TypeError" /\ TopK(out.body) >= 0)

\* C5 as stated: for every topK <= 0 the sources list that /chat returns is
\* empty.
C5_Original ==
  (out.sent /\ out.kind = "chat" /\ out.status = 200 /\ TopK(out.body) <= 0) =>
     out.reply.sources = <<>>

\* C6: the step that completes ensureEmbeddings leaves every document loaded
\* at startup with an embedding, the one it was loaded with if it had one, and
\* leaves in kb.json the whole of kb as it then is.
C6_BackfillCompletes ==
  [][ (boot.pc # "done" /\ boot'.pc = "done") =>
        /\ \A i \in 1..Len(hist'.kb0) :
             /\ HasEmbedding(kb'[i])
             /\ HasEmbedding(hist'.kb0[i]) => kb'[i].embedding = hist'.kb0[i].embedding
        /\ file' = SaveKB(kb') ]_vars

\* The backfill has completed on a store loaded with one embedded and one
\* unembedded document, to which a document was ingested meanwhile.
C6_Witness ==
  /\ boot.pc = "done" /\ file = SaveKB(kb)
  /\ \E i \in 1..Len(hist.kb0) : ~HasEmbedding(hist.kb0[i])
  /\ \E i \in 1..Len(hist.kb0) : HasEmbedding(hist.kb0[i])
  /\ Len(kb) > Len(hist.kb0)

\* The documents of toEmbed before position boot.i have an embedding, those
\* from boot.i on have none.
BackfillStoppedAt(k) ==
  \A p \in 1..Len(boot.toEmbed) :
    HasEmbedding(k[boot.toEmbed[p]]) <=> p < boot.i

\* C7: the step in which embedOne fails in ensureEmbeddings changes neither kb
\* nor kb.json; after it, and for as long as the process lives, the documents
\* processed before the failure have their embedding and the failing and later
\* ones have none.
C7_BackfillFails ==
  [][ /\ (boot.pc = "backfill" /\ boot'.pc = "failed") =>
           (kb' = kb /\ file' = file /\ boot'.i = boot.i /\ BackfillStoppedAt(kb))
      /\ boot.pc = "failed" => (boot' = boot /\ BackfillStoppedAt(kb')) ]_vars

\* The backfill failed on the second of two documents and wrote no snapshot.
C7_Witness ==
  /\ boot.pc = "failed" /\ boot.i = 2 /\ Len(boot.toEmbed) = 2
  /\ HasEmbedding(kb[boot.toEmbed[1]]) /\ ~HasEmbedding(kb[boot.toEmbed[2]])
  /\ ~file.exists

\* C8 as stated: after a gateway failure in ingest, chat or the startup
\* backfill the failure has been answered with 500 and the service is still
\* serving requests.
C8_Original ==
  /\ (out.sent /\ out.caught \in {"embedOne", "generate"}) => (out.status = 500 /\ Serving)
  /\ boot.pc = "failed" => Serving

\* C9: after loadKB no step changes the id, text or timestamp of a stored
\* document, nor removes or replaces an embedding a stored document has.
C9_DocumentsImmutable ==
  [][ boot.pc # "init" =>
        \A i \in 1..Len(kb) :
          /\ i <= Len(kb')
          /\ kb'[i].id = kb[i].id
          /\ kb'[i].text = kb[i].text
          /\ kb'[i].timestamp = kb[i].timestamp
          /\ HasEmbedding(kb[i]) =>
               (HasEmbedding(kb'[i]) /\ kb'[i].embedding = kb[i].embedding) ]_vars

\* A loaded document has got its embedding, and a document has been ingested
\* behind the loaded ones.
C9_Witness ==
  /\ \E i \in 1..Len(hist.kb0) : ~HasEmbedding(hist.kb0[i]) /\ HasEmbedding(kb[i])
  /\ Len(kb) > Len(hist.kb0)

\* C10: after loadKB every step leaves the documents of kb, taken as
\* {id, text, timestamp}, as a prefix of the documents of kb after the step.
C10_AppendOnly ==
  [][ boot.pc # "init" =>
        /\ Len(kb) <= Len(kb')
        /\ SubSeq(KBView(kb'), 1, Len(kb)) = KBView(kb) ]_vars

\* Two documents have been appended behind the loaded ones by a request that
\* is still in flight.
C10_Witness ==
  /\ Len(kb) >= Len(hist.kb0) + 2
  /\ hist.fate[Len(kb)] = "pending"

\* C11: when an ingest request answers 200, kb.json holds every document of
\* kb as it then is, in order and with its embedding, those pushed by other
\* ingest requests still in flight included.
C11_SnapshotIsWholeStore ==
  (out.sent /\ out.kind = "ingest" /\ out.status = 200) =>
     /\ file.exists
     /\ Len(file.text) = Len(kb)
     /\ \A i \in 1..Len(kb) :
          /\ DOMAIN file.text[i] = DOMAIN kb[i]
          /\ \A m \in DOMAIN kb[i] :
               IF m = "embedding" THEN file.text[i][m] = JArray(kb[i][m])
                                  ELSE file.text[i][m] = JString(kb[i][m])

\* An ingest request has answered 200 while another one, which has already
\* pushed a document, is still in flight.
C11_Witness ==
  /\ out.sent /\ out.kind = "ingest" /\ out.status = 200
  /\ \E i \in 1..Len(kb) : hist.fate[i] = "pending" /\ InFile(i)

C13_NoEmbeddingExposed ==
  /\ (out.sent /\ out.kind = "kb") =>
        /\ Len(out.reply.list) = Len(kb)
        /\ \A i \in 1..Len(kb) :
             /\ DOMAIN out.reply.list[i] = {"id", "text", "timestamp"}
             /\ out.reply.list[i].id = kb[i].id
             /\ out.reply.list[i].text = kb[i].text
             /\ out.reply.list[i].timestamp = kb[i].timestamp
  /\ (out.sent /\ out.kind = "chat" /\ out.status = 200) =>
        \A i \in 1..Len(out.reply.sources) :
          DOMAIN out.reply.sources[i] = {"id", "score", "timestamp"}
  /\ out.sent => "embedding" \notin DOMAIN out.reply

\* GET /kb has answered for a store that holds documents with an embedding.
C13_Witness ==
  /\ out.sent /\ out.kind = "kb" /\ Len(out.reply.list) >= 2
  /\ \E i \in 1..Len(kb) : HasEmbedding(kb[i])

\* The body has no query, or its query is empty or made of spaces only.
IsBlank(body) ==
  "query" \in DOMAIN body => \A i \in 1..Len(body.query) : body.query[i] = " "

\* C14: a chat request whose query is missing, empty or only whitespace is
\* answered 400 "query is required" in the step that receives it, which
\* changes neither kb nor kb.json and leaves no request waiting for a gateway;
\* no chat request with such a query is ever waiting for a gateway.
C14_BlankQueryRejected ==
  [][ /\ (out'.sent /\ out'.kind = "chat" /\ IsBlank(out'.body)) =>
           /\ out'.status = 400
           /\ out'.reply = [error |-> "query is required"]
           /\ kb' = kb /\ file' = file /\ reqs' = reqs /\ boot' = boot
      /\ \A r \in Reqs : reqs'[r].kind = "chat" => ~IsBlank(reqs'[r].body) ]_vars

\* A query of two spaces has been answered 400 by a service that holds
\* documents and a snapshot.
C14_Witness ==
  /\ out.sent /\ out.kind = "chat" /\ out.status = 400
  /\ out.body = [query |-> <<" ", " ">>]
  /\ Len(kb) > 0 /\ file.exists /\ \E r \in Reqs : InFlight(r)

\* The item has an id and a text, neither of them empty.
IsValidItem(doc) ==
  /\ "id" \in DOMAIN doc /\ doc.id # ""
  /\ "text" \in DOMAIN doc /\ doc.text # ""

RECURSIVE ValidItems(_, _)
\* The indices of the valid items among the first n items of docs, in order.
ValidItems(docs, n) ==
  IF n = 0 THEN <<>>
  ELSE IF IsValidItem(docs[n]) THEN Append(ValidItems(docs, n - 1), n)
       ELSE ValidItems(docs, n - 1)

\* The sequence of numbers s is strictly increasing.
Increasing(s) == \A p \in 2..Len(s) : s[p - 1] < s[p]

\* The documents at the indices `pushed` of kb are, in order, the items of
\* docs at the first indices of `calls`.
PushedAre(pushed, calls, docs) ==
  /\ Len(pushed) <= Len(calls)
  /\ Increasing(pushed)
  /\ \A p \in 1..Len(pushed) :
       /\ pushed[p] \in 1..Len(kb)
       /\ kb[pushed[p]].id = docs[calls[p]].id
       /\ kb[pushed[p]].text = docs[calls[p]].text

\* C15: an ingest request that answers 200 has sent exactly the valid items
\* of its batch to the Embedding Gateway, in batch order, and has pushed
\* exactly these items, in batch order, behind the documents the store held
\* when it started; when no other request overlapped it the store has grown
\* by these documents and no other.
C15_SkippedItems ==
  (out.sent /\ out.kind = "ingest" /\ out.status = 200) =>
     LET docs == Docs(out.body)
         valid == ValidItems(docs, Len(docs))
     IN /\ out.calls = valid
        /\ Len(out.pushed) = Len(valid)
        /\ PushedAre(out.pushed, valid, docs)
        /\ \A p \in 1..Len(out.pushed) : out.pushed[p] > out.kb0
        /\ out.alone =>
             /\ Len(kb) = out.kb0 + Len(valid)
             /\ \A p \in 1..Len(valid) : out.pushed[p] = out.kb0 + p

\* A batch of four items, the second without text, has been answered 200 with
\* its three valid items pushed.
C15_Witness ==
  /\ out.sent /\ out.kind = "ingest" /\ out.status = 200 /\ out.alone
  /\ Len(out.pushed) = 3 /\ Len(kb) = out.kb0 + 3
  /\ Len(out.body.documents) = 4 /\ ~IsValidItem(out.body.documents[2])

\* C16: an ingest request waits for one embedOne call at a time, the call of
\* the item it is at; the items it has sent are in batch order without
\* repetition, and all but the one it waits for have returned and were pushed;
\* a request that has ended has sent no item twice, and every item it sent has
\* returned, but the failed one.  A backfill waits for the call of one
\* document of toEmbed; the documents before it have got their embedding, it
\* and the later ones have none; no document is in toEmbed twice.
C16_SequentialCalls ==
  /\ \A r \in Reqs :
       (reqs[r].kind = "ingest" /\ reqs[r].pc = "embed") =>
          /\ hist.req[r].calls # <<>>
          /\ Increasing(hist.req[r].calls)
          /\ hist.req[r].calls[Len(hist.req[r].calls)] = reqs[r].i
          /\ Len(hist.req[r].pushed) = Len(hist.req[r].calls) - 1
  /\ (out.sent /\ out.kind = "ingest") =>
        /\ Increasing(out.calls)
        /\ Len(out.pushed) = Len(out.calls) - (IF out.caught = "embedOne" THEN 1 ELSE 0)
  /\ boot.pc \in {"backfill", "failed"} =>
        /\ boot.i \in 1..Len(boot.toEmbed)
        /\ Increasing(boot.toEmbed)
        /\ BackfillStoppedAt(kb)

\* An ingest request waits for the call of its third valid item, the fourth
\* of its batch, with the two before it pushed.
C16_Witness ==
  \E r \in Reqs :
     /\ reqs[r].kind = "ingest" /\ reqs[r].pc = "embed" /\ reqs[r].i = 4
     /\ hist.req[r].calls = <<1, 3, 4>> /\ Len(hist.req[r].pushed) = 2

\* C17: the step in which an ingest request stores an item appends one
\* document made of the item's id and text at the end of kb and leaves every
\* document kb held as it was, whether the id is already stored or not.
C17_DuplicateIdAppended ==
  [][ (boot.pc # "init" /\ Len(hist'.fate) > Len(hist.fate)) =>
        /\ Len(kb') = Len(kb) + 1
        /\ \A i \in 1..Len(kb) : kb'[i] = kb[i]
        /\ \E r \in Reqs :
             /\ reqs[r].kind = "ingest" /\ reqs[r].pc = "embed"
             /\ kb'[Len(kb')].id = Docs(reqs[r].body)[reqs[r].i].id
             /\ kb'[Len(kb')].text = Docs(reqs[r].body)[reqs[r].i].text
             /\ HasEmbedding(kb'[Len(kb')]) ]_vars

\* Two documents of the store have the same id and different timestamps.
C17_Witness ==
  \E i, j \in 1..Len(kb) :
     i < j /\ kb[i].id = kb[j].id /\ kb[i].timestamp # kb[j].timestamp

\* C18: the store holds the loaded documents and one document for each
\* embedOne call of an ingest request that has returned; the documents of one
\* request are in kb in the order of its batch, and no document belongs to
\* two requests.
C18_NoLostAppend ==
  /\ Len(kb) = Len(hist.fate)
  /\ \A r \in Reqs :
       (reqs[r].kind = "ingest" /\ reqs[r].pc = "embed") =>
          /\ Len(hist.req[r].pushed) = Len(hist.req[r].calls) - 1
          /\ PushedAre(hist.req[r].pushed, hist.req[r].calls, Docs(reqs[r].body))
          /\ \A q \in Reqs \ {r} : \A p \in 1..Len(hist.req[r].pushed) :
               \A o \in 1..Len(hist.req[q].pushed) :
                  hist.req[r].pushed[p] # hist.req[q].pushed[o]
  /\ (out.sent /\ out.kind = "ingest") =>
        /\ Len(out.pushed) = Len(out.calls) - (IF out.caught = "embedOne" THEN 1 ELSE 0)
        /\ PushedAre(out.pushed, out.calls, Docs(out.body))
        /\ \A q \in Reqs : \A p \in 1..Len(out.pushed) :
             \A o \in 1..Len(hist.req[q].pushed) :
                out.pushed[p] # hist.req[q].pushed[o]

\* A request has pushed its two items with an item of another request between
\* them.
C18_Witness ==
  /\ out.sent /\ out.kind = "ingest" /\ out.status = 200
  /\ Len(out.pushed) = 2 /\ out.pushed[2] > out.pushed[1] + 1

\* C19: after loadKB, kb.json, when it exists, holds no more documents than
\* kb, and its document i has the id, text and timestamp of kb[i] and either
\* no embedding or the embedding of kb[i].
C19_SnapshotIsPrefix ==
  (boot.pc # "init" /\ file.exists) =>
     /\ Len(file.text) <= Len(kb)
     /\ \A i \in 1..Len(file.text) :
          LET d == ParseDoc(file.text[i])
          IN /\ d.id = kb[i].id /\ d.text = kb[i].text
             /\ d.timestamp = kb[i].timestamp
             /\ HasEmbedding(d) => (HasEmbedding(kb[i]) /\ d.embedding = kb[i].embedding)

\* kb.json holds the first documents of kb and not the last one.
C19_Witness ==
  /\ boot.pc # "init" /\ file.exists
  /\ 0 < Len(file.text) /\ Len(file.text) < Len(kb)

\* C20 as stated: no chat request computes its ranking over a store in which
\* a document has no embedding, that is, no chat request is answered with the
\* TypeError that cosine throws on an absent embedding.
C20_Original ==
  ~(out.sent /\ out.kind = "chat" /\ out.caught = "TypeError")
====
